---- MODULE Spec2Model ----
(***************************************************************************)
(* Model of the authentication handshake of gosnowflake (auth.go):         *)
(* authenticate builds the login request from the connection               *)
(* configuration, hands it to postAuth, which performs one FuncPost round  *)
(* trip and classifies the HTTP outcome, and then commits or clears the    *)
(* session record sc.rest.{Token, MasterToken, SessionID}.                 *)
(*                                                                         *)
(* Strings whose characters the code inspects (the authenticator name and  *)
(* the session parameter keys, which go through strings.ToUpper, and the   *)
(* response code, which goes through strconv.Atoi) are sequences of        *)
(* one-character strings.  All other strings are opaque values.            *)
(***************************************************************************)
EXTENDS Integers, Sequences, FiniteSets, TLC

\* ------------------------------------------------------------------ bounds

\* Longest response code string that is enumerated exhaustively.
MaxCodeLen == 2

\* How many times a caller calls postAuth again with the params value of a
\* call that failed.
MaxRetries == 2

\* ----------------------------------------------------------------- strings

LowerLetters ==
    <<"a","b","c","d","e","f","g","h","i","j","k","l","m",
      "n","o","p","q","r","s","t","u","v","w","x","y","z">>

UpperLetters ==
    <<"A","B","C","D","E","F","G","H","I","J","K","L","M",
      "N","O","P","Q","R","S","T","U","V","W","X","Y","Z">>

\* unicode.ToUpper on one character: a lower-case letter maps to its
\* upper-case letter, every other character to itself.
ToUpperChar(c) ==
    IF \E i \in 1..Len(LowerLetters) : LowerLetters[i] = c
    THEN UpperLetters[CHOOSE i \in 1..Len(LowerLetters) : LowerLetters[i] = c]
    ELSE c

\* strings.ToUpper
ToUpper(s) == [i \in 1..Len(s) |-> ToUpperChar(s[i])]

\* The scheme names of auth.go lines 25-28.
authenticatorExternalBrowser ==
    <<"E","X","T","E","R","N","A","L","B","R","O","W","S","E","R">>

authenticatorOAuth == <<"O","A","U","T","H">>

authenticatorSnowflake == <<"S","N","O","W","F","L","A","K","E">>

authenticatorOkta == <<"O","K","T","A">>

\* clientType (line 21) and the package-level strings of lines 32-38; the
\* driver version comes from another file of the package.
clientType == "Go"

SnowflakeGoDriverVersion == "SnowflakeGoDriverVersion"

platform == "gc-amd64"

operatingSystem == "linux"

userAgent == <<clientType, SnowflakeGoDriverVersion, "go-runtime", platform>>

\* ------------------------------------------------------------ strconv.Atoi

Digits == <<"0","1","2","3","4","5","6","7","8","9">>

IsDigit(c) == \E i \in 1..10 : Digits[i] = c

DigitValue(c) == (CHOOSE i \in 1..10 : Digits[i] = c) - 1

\* Value of a sequence of decimal digits.
RECURSIVE DigitsValue(_)
DigitsValue(s) ==
    IF s = <<>> THEN 0
    ELSE 10 * DigitsValue(SubSeq(s, 1, Len(s) - 1)) + DigitValue(s[Len(s)])

\* The decimal digits of 2^63 - 1, the largest int of the 64-bit builds.
MaxIntDigits ==
    <<"9","2","2","3","3","7","2","0","3","6","8","5","4","7","7","5","8","0","7">>

\* The decimal digits of 2^63, the magnitude of the smallest int.
MinIntDigits ==
    <<"9","2","2","3","3","7","2","0","3","6","8","5","4","7","7","5","8","0","8">>

RECURSIVE StripZeros(_)
StripZeros(s) ==
    IF s # <<>> /\ s[1] = "0" THEN StripZeros(Tail(s)) ELSE s

\* a <= b for digit sequences of equal length.
RECURSIVE DigitsLeq(_, _)
DigitsLeq(a, b) ==
    IF a = <<>> THEN TRUE
    ELSE IF DigitValue(a[1]) # DigitValue(b[1])
         THEN DigitValue(a[1]) < DigitValue(b[1])
         ELSE DigitsLeq(Tail(a), Tail(b))

\* Whether the magnitude written by the digits fits the int type.
FitsInt(digits, neg) ==
    LET d     == StripZeros(digits)
        limit == IF neg THEN MinIntDigits ELSE MaxIntDigits
    IN  \/ Len(d) < Len(limit)
        \/ Len(d) = Len(limit) /\ DigitsLeq(d, limit)

\* strconv.Atoi(s): an optional leading sign, then one or more decimal
\* digits; anything else is a syntax error, a value outside int a range
\* error.  The result is [ok, value]; value is meaningful only when ok.
Atoi(s) ==
    LET signed == s # <<>> /\ s[1] \in {"-", "+"}
        body   == IF signed THEN Tail(s) ELSE s
        neg    == signed /\ s[1] = "-"
    IN  IF body = <<>> \/ \E i \in 1..Len(body) : ~IsDigit(body[i])
        THEN [ok |-> FALSE, value |-> 0]
        ELSE IF ~FitsInt(body, neg)
             THEN [ok |-> FALSE, value |-> 0]
             ELSE [ok |-> TRUE,
                   value |-> IF neg THEN 0 - DigitsValue(body)
                             ELSE DigitsValue(body)]

\* Character sequences of the names and keys used as inputs.
SNOWFLAKE_LC == <<"s","n","o","w","f","l","a","k","e">>

OAUTH_LC == <<"o","a","u","t","h">>

OAUTH_MC == <<"O","A","u","t","h">>

OKTA_LC == <<"o","k","t","a">>

EXTBROWSER_LC == <<"e","x","t","e","r","n","a","l","b","r","o","w","s","e","r">>

EXTBROWSER_MC == <<"E","x","t","e","r","n","a","l","B","r","o","w","s","e","r">>

LDAP_LC == <<"l","d","a","p">>

KEY_warehouse == <<"w","a","r","e","h","o","u","s","e">>

KEY_a == <<"a">>

KEY_A == <<"A">>

KEY_b2 == <<"b","2">>

\* ------------------------------------------------------------------ values

\* A nil pointer, a nil error.
Nil == [type |-> "nil"]

\* An error number or SQL state that the package names (errors.go), and a
\* number computed at run time.
Named(name) == <<"const", name>>

IntNum(n) == <<"int", n>>

\* authenticator names a configuration may carry, in several casings,
\* the empty name and a name that matches no scheme.
AuthenticatorNames ==
    { <<>>,
      SNOWFLAKE_LC, authenticatorSnowflake,
      OAUTH_LC, OAUTH_MC, authenticatorOAuth,
      OKTA_LC, authenticatorOkta,
      EXTBROWSER_LC, EXTBROWSER_MC, authenticatorExternalBrowser,
      LDAP_LC }

\* Session parameter override maps (cfg.Params): key -> value.
ParamMaps ==
    { <<>>,
      [k \in {KEY_warehouse} |-> "x"],
      [k \in {KEY_a, KEY_A} |-> IF k = KEY_a THEN "1" ELSE "2"],
      [k \in {KEY_A, KEY_b2} |-> IF k = KEY_A THEN "2" ELSE "3"] }

\* Config, restricted to the fields authenticate reads.
Configs ==
    [ Account            : {"acme"},
      User               : {"alice"},
      Password           : {"", "pw"},
      Passcode           : {"", "123456"},
      PasscodeInPassword : BOOLEAN,
      Token              : {"", "oauth-tok"},
      Authenticator      : AuthenticatorNames,
      Params             : ParamMaps,
      Application        : {"app"},
      Database           : {"", "db"},
      Schema             : {""},
      Warehouse          : {""},
      Role               : {""} ]

\* The credential bytes handed to authenticate (nil converts to "").
SamlResponses == {"", "<assertion/>"}

ProofKeys == {"", "pk"}

\* The session record: sc.rest.Token, sc.rest.MasterToken, sc.rest.SessionID.
ClearedRecord == [Token |-> "", MasterToken |-> "", SessionID |-> -1]

InitRecords ==
    { ClearedRecord, [Token |-> "T0", MasterToken |-> "M0", SessionID |-> 1] }

\* ---------------------------------------------------------- request builder

\* getHeaders()
getHeaders ==
    [ContentType |-> "headerContentTypeApplicationJSON",
     accept      |-> "headerAcceptTypeApplicationSnowflake",
     UserAgent   |-> userAgent]

\* Mutant of SessionParameterMaps: the keys are copied as configured.
SessionParameterMapsAsIs(params) == { params }

\* The maps the loop of lines 190-194 can produce.  Go visits the keys of
\* sc.cfg.Params in an unspecified order, so when several keys have the same
\* upper-case form any one of them may be written last.
SessionParameterMaps(params) ==
    LET upper == { ToUpper(k) : k \in DOMAIN params }
    IN  { m \in [upper -> { params[k] : k \in DOMAIN params }] :
            \A u \in upper :
                \E k \in DOMAIN params : ToUpper(k) = u /\ m[u] = params[k] }

\* requestMain as initialised at lines 184-202: every field the literal
\* does not name has Go's zero value.
requestMainInit(c, sessionParameters) ==
    [ ClientAppID             |-> clientType,
      ClientAppVersion        |-> SnowflakeGoDriverVersion,
      SvnRevision             |-> "",
      AccountName             |-> c.Account,
      LoginName               |-> "",
      Password                |-> "",
      RawSAMLResponse         |-> "",
      ExtAuthnDuoMethod       |-> "",
      Passcode                |-> "",
      Authenticator           |-> <<>>,
      SessionParameters       |-> sessionParameters,
      ClientEnvironment       |-> [Application |-> c.Application,
                                   Os          |-> operatingSystem,
                                   OsVersion   |-> platform],
      BrowserModeRedirectPort |-> "",
      ProofKey                |-> "",
      Token                   |-> "" ]

\* case authenticatorExternalBrowser (lines 206-210)
caseExternalBrowser(r, c, samlResponse, proofKey) ==
    [r EXCEPT !.ProofKey      = proofKey,
              !.Token         = samlResponse,
              !.LoginName     = c.User,
              !.Authenticator = authenticatorExternalBrowser]

\* Mutant of caseOAuth: the password is sent along with the bearer token.
caseOAuthSendsPassword(r, c) ==
    [r EXCEPT !.LoginName     = c.User,
              !.Password      = c.Password,
              !.Authenticator = authenticatorOAuth,
              !.Token         = c.Token]

\* case authenticatorOAuth (lines 211-214)
caseOAuth(r, c) ==
    [r EXCEPT !.LoginName     = c.User,
              !.Authenticator = authenticatorOAuth,
              !.Token         = c.Token]

\* case authenticatorOkta (lines 215-216)
caseOkta(r, samlResponse) ==
    [r EXCEPT !.RawSAMLResponse = samlResponse]

\* Mutant of casePasscode: the standalone passcode is tested first.
casePasscodeFirst(r, c) ==
    IF c.Passcode # ""
    THEN [r EXCEPT !.Passcode = c.Passcode, !.ExtAuthnDuoMethod = "passcode"]
    ELSE IF c.PasscodeInPassword
         THEN [r EXCEPT !.ExtAuthnDuoMethod = "passcode"]
         ELSE r

\* The inner switch of the default case (lines 223-229).
casePasscode(r, c) ==
    IF c.PasscodeInPassword
    THEN [r EXCEPT !.ExtAuthnDuoMethod = "passcode"]
    ELSE IF c.Passcode # ""
         THEN [r EXCEPT !.Passcode = c.Passcode,
                        !.ExtAuthnDuoMethod = "passcode"]
         ELSE r

\* case authenticatorSnowflake, falling through to default (lines 217-230)
caseDefault(r, c) ==
    casePasscode([r EXCEPT !.LoginName = c.User, !.Password = c.Password], c)

\* Mutant of requestMain: the configured name is compared as written.
requestMainCaseSensitive(c, samlResponse, proofKey, sessionParameters) ==
    LET r             == requestMainInit(c, sessionParameters)
        authenticator == c.Authenticator
    IN  CASE authenticator = authenticatorExternalBrowser ->
                caseExternalBrowser(r, c, samlResponse, proofKey)
          [] authenticator = authenticatorOAuth -> caseOAuth(r, c)
          [] authenticator = authenticatorOkta  -> caseOkta(r, samlResponse)
          [] OTHER -> caseDefault(r, c)

\* The switch on strings.ToUpper(sc.cfg.Authenticator) (lines 204-230).
requestMain(c, samlResponse, proofKey, sessionParameters) ==
    LET r             == requestMainInit(c, sessionParameters)
        authenticator == ToUpper(c.Authenticator)
    IN  CASE authenticator = authenticatorExternalBrowser ->
                caseExternalBrowser(r, c, samlResponse, proofKey)
          [] authenticator = authenticatorOAuth -> caseOAuth(r, c)
          [] authenticator = authenticatorOkta  -> caseOkta(r, samlResponse)
          [] OTHER -> caseDefault(r, c)

\* The query selectors of lines 235-247: a selector is added only when
\* the configuration names it.  url.Values maps a key to a list of values.
authParams(c) ==
    LET named == { <<"databaseName", c.Database>>, <<"schemaName", c.Schema>>,
                   <<"warehouse", c.Warehouse>>, <<"roleName", c.Role>> }
        keys  == { p[1] : p \in { q \in named : q[2] # "" } }
    IN  [k \in keys |-> << (CHOOSE p \in named : p[1] = k)[2] >>]

\* What authenticate hands to FuncPostAuth (line 257); the body is the
\* authRequest before json.Marshal, which is total on this type.
authCall(c, samlResponse, proofKey, sessionParameters) ==
    [ params  |-> authParams(c),
      headers |-> getHeaders,
      body    |-> [data |-> requestMain(c, samlResponse, proofKey,
                                        sessionParameters)] ]

\* ------------------------------------------------------ transport outcomes

\* net/http status codes named by postAuth.
StatusOK == 200

StatusUnauthorized == 401

StatusForbidden == 403

StatusBadGateway == 502

StatusServiceUnavailable == 503

StatusGatewayTimeout == 504

\* Other statuses a server may answer with.
OtherStatuses == {201, 400, 500}

NonOKStatuses ==
    { StatusUnauthorized, StatusForbidden, StatusBadGateway,
      StatusServiceUnavailable, StatusGatewayTimeout } \cup OtherStatuses

\* Characters of the enumerated response codes: two digits, a sign and a
\* character that is neither.
CodeChars == {"0", "3", "-", "x"}

RECURSIVE SeqsUpTo(_, _)
SeqsUpTo(S, n) ==
    IF n = 0 THEN { <<>> }
    ELSE LET shorter == SeqsUpTo(S, n - 1)
         IN  shorter \cup { Append(q, c) : q \in shorter, c \in S }

CODE_390100 == <<"3","9","0","1","0","0">>

CODE_plus3 == <<"+","3">>

\* The values of the response's code field: every string over CodeChars
\* up to MaxCodeLen, the service's login-failure code and a signed code.
Codes == SeqsUpTo(CodeChars, MaxCodeLen) \cup { CODE_390100, CODE_plus3 }

\* authResponseMain, restricted to the fields that reach the session record
\* and two of the display fields; a missing JSON field decodes to the zero
\* value.
ZeroData ==
    [Token |-> "", MasterToken |-> "", SessionID |-> 0,
     DisplayUserName |-> "", ServerVersion |-> ""]

SuccessData ==
    [ Token           : {"", "T1"},
      MasterToken     : {"", "M1"},
      SessionID       : {-2, 0, 7},
      DisplayUserName : {"ALICE"},
      ServerVersion   : {"3.0"} ]

FullData ==
    [Token |-> "T1", MasterToken |-> "M1", SessionID |-> 7,
     DisplayUserName |-> "ALICE", ServerVersion |-> "3.0"]

\* Decoded authResponse values: success=true with any data, success=false
\* with any code (and without data, or with data the service filled in).
SuccessResponses ==
    { [Data |-> d, Message |-> "", Code |-> <<>>, Success |-> TRUE] :
        d \in SuccessData }

FailureResponses ==
    { [Data |-> ZeroData, Message |-> "bad creds", Code |-> c,
       Success |-> FALSE] : c \in Codes }
    \cup { [Data |-> FullData, Message |-> "bad creds", Code |-> CODE_390100,
            Success |-> FALSE] }

\* Errors FuncPost itself returns (no response): the login timeout expired,
\* or the call was cancelled.
TransportErrors ==
    { [type |-> "net", name |-> "timeout"],
      [type |-> "net", name |-> "context canceled"] }

\* What FuncPost gives back: an error, or a response with a status code
\* and a body.  readable: whether reading the body succeeds; json: the
\* authResponse the body decodes to, or Nil when it is not such a document.
PostError(e) ==
    [err |-> e, StatusCode |-> 0, readable |-> FALSE, json |-> Nil]

PostResponse(status, readable, json) ==
    [err |-> Nil, StatusCode |-> status, readable |-> readable, json |-> json]

PostOutcomes ==
    { PostError(e) : e \in TransportErrors }
    \cup { PostResponse(st, rd, Nil) : st \in NonOKStatuses, rd \in BOOLEAN }
    \cup { PostResponse(StatusOK, rd, Nil) : rd \in BOOLEAN }
    \cup { PostResponse(StatusOK, TRUE, j) :
             j \in SuccessResponses \cup FailureResponses }

\* --------------------------------------------------------------- postAuth

SnowflakeError(number, sqlState, message, args) ==
    [type |-> "SnowflakeError", Number |-> number, SQLState |-> sqlState,
     Message |-> message, MessageArgs |-> args]

\* The error of reading a body that cannot be read, and of decoding one
\* that is not an authResponse document.
ReadError == [type |-> "io", name |-> "read"]

JSONError == [type |-> "json", name |-> "decode"]

\* Mutant of decodeBody: a body that does not decode is reported as an
\* authentication failure.
decodeBodyAsAuthFailure(o) ==
    IF ~o.readable \/ o.json = Nil
    THEN [data |-> Nil,
          err  |-> SnowflakeError(Named("ErrFailedToAuth"),
                                  Named("SQLStateConnectionRejected"),
                                  Named("errMsgFailedToAuth"),
                                  <<o.StatusCode>>)]
    ELSE [data |-> o.json, err |-> Nil]

\* json.NewDecoder(resp.Body).Decode(&respd) (lines 122-129)
decodeBody(o) ==
    IF ~o.readable THEN [data |-> Nil, err |-> ReadError]
    ELSE IF o.json = Nil THEN [data |-> Nil, err |-> JSONError]
    ELSE [data |-> o.json, err |-> Nil]

\* The statuses other than 200 (lines 131-163).
classifyStatus(o, fullURL) ==
    IF o.StatusCode \in { StatusBadGateway, StatusServiceUnavailable,
                          StatusGatewayTimeout }
    THEN [data |-> Nil,
          err  |-> SnowflakeError(Named("ErrCodeServiceUnavailable"),
                        Named("SQLStateConnectionWasNotEstablished"),
                        Named("errMsgServiceUnavailable"),
                        <<o.StatusCode, fullURL>>)]
    ELSE IF o.StatusCode \in { StatusUnauthorized, StatusForbidden }
    THEN [data |-> Nil,
          err  |-> SnowflakeError(Named("ErrCodeFailedToConnect"),
                        Named("SQLStateConnectionRejected"),
                        Named("errMsgFailedToConnect"),
                        <<o.StatusCode, fullURL>>)]
    ELSE IF ~o.readable
    THEN [data |-> Nil, err |-> ReadError]
    ELSE [data |-> Nil,
          err  |-> SnowflakeError(Named("ErrFailedToAuth"),
                        Named("SQLStateConnectionRejected"),
                        Named("errMsgFailedToAuth"),
                        <<o.StatusCode, fullURL>>)]

\* url.Values.Add: the value is appended to the list under the key.
Add(params, key, value) ==
    [k \in DOMAIN params \cup {key} |->
        IF k = key
        THEN IF key \in DOMAIN params THEN Append(params[key], value)
             ELSE <<value>>
        ELSE params[k]]

\* The request identifiers a params value holds.
RequestIDs(params) ==
    IF "requestId" \in DOMAIN params THEN params["requestId"] ELSE <<>>

\* uuid.New().String(): an identifier unlike every one before it.  The
\* identifiers of one params value are named by the order postAuth added
\* them, which keeps those that can meet in one URL distinct.
NewUUID(params) == <<"uuid", Len(RequestIDs(params)) + 1>>

\* params.Add("requestId", uuid.New().String()) (line 111): params is the
\* caller's *url.Values, so the caller's value is the one that grows.
withRequestID(params) == Add(params, "requestId", NewUUID(params))

\* postAuth(sr, params, headers, body, timeout) given FuncPost's outcome o;
\* call.params already holds the request identifier of line 111.
postAuth(call, o) ==
    LET fullURL == <<"/session/v1/login-request", call.params>>
    IN  IF o.err # Nil THEN [data |-> Nil, err |-> o.err]
        ELSE IF o.StatusCode = StatusOK THEN decodeBody(o)
        ELSE classifyStatus(o, fullURL)

\* ----------------------------------------------------------- authenticate

\* The error strconv.Atoi returns for a string it rejects.
NumError(code) == [type |-> "strconv.NumError", Func |-> "Atoi", Num |-> code]

\* Mutant of forwardError: a transport error is re-labelled as a rejected
\* connection.
forwardErrorWrapped(err) ==
    [resp |-> Nil,
     err  |-> SnowflakeError(IntNum(-1), Named("SQLStateConnectionRejected"),
                             "", <<>>)]

\* if err != nil { return nil, err } (lines 258-260)
forwardError(err) == [resp |-> Nil, err |-> err]

\* Mutant of pcAfterPost: a ServiceUnavailable answer is posted again.
pcAfterPostRetries(res) ==
    IF res.err # Nil
    THEN IF res.err.type = "SnowflakeError"
            /\ res.err.Number = Named("ErrCodeServiceUnavailable")
         THEN "post"
         ELSE "idle"
    ELSE "token"

\* Where authenticate goes once FuncPostAuth has returned (lines 258-261):
\* it returns on an error and writes the session record otherwise; no path
\* leads back to the call.
pcAfterPost(res) == IF res.err # Nil THEN "idle" ELSE "token"

\* Mutant of tokenAfter: the token of the data is stored on both paths.
tokenAlwaysFromData(respd) == respd.Data.Token

\* sc.rest.Token after line 264 (success=false) or line 279 (success=true).
tokenAfter(respd) ==
    IF ~respd.Success THEN "" ELSE respd.Data.Token

\* Mutant of masterTokenAfter: the master token is taken from the token.
masterTokenFromToken(respd) ==
    IF ~respd.Success THEN "" ELSE respd.Data.Token

\* sc.rest.MasterToken after line 265 or line 280.
masterTokenAfter(respd) ==
    IF ~respd.Success THEN "" ELSE respd.Data.MasterToken

\* Mutant of sessionIDAfter: a rejected login leaves the zero value.
sessionIDZeroOnFailure(respd) ==
    IF ~respd.Success THEN 0 ELSE respd.Data.SessionID

\* sc.rest.SessionID after line 266 or line 281.
sessionIDAfter(respd) ==
    IF ~respd.Success THEN -1 ELSE respd.Data.SessionID

\* Mutant of failureReturn: the error number is always the sentinel.
failureReturnSentinel(respd) ==
    LET code == Atoi(respd.Code)
    IN  IF ~code.ok
        THEN [resp |-> Nil, err |-> NumError(respd.Code)]
        ELSE [resp |-> Nil,
              err  |-> SnowflakeError(IntNum(-1),
                                      Named("SQLStateConnectionRejected"),
                                      respd.Message, <<>>)]

\* Mutant of failureReturn: a code that does not parse is swallowed.
failureReturnSwallowed(respd) ==
    LET code == Atoi(respd.Code)
    IN  IF ~code.ok
        THEN [resp |-> Nil, err |-> Nil]
        ELSE [resp |-> Nil,
              err  |-> SnowflakeError(IntNum(code.value),
                                      Named("SQLStateConnectionRejected"),
                                      respd.Message, <<>>)]

\* The return of the success=false branch (lines 267-276): when the code
\* does not parse, the parse error is what is returned.
failureReturn(respd) ==
    LET code == Atoi(respd.Code)
    IN  IF ~code.ok
        THEN [resp |-> Nil, err |-> NumError(respd.Code)]
        ELSE [resp |-> Nil,
              err  |-> SnowflakeError(IntNum(code.value),
                                      Named("SQLStateConnectionRejected"),
                                      respd.Message, <<>>)]

\* What authenticate returns once the record is written (lines 267-282).
authenticateReturn(respd) ==
    IF ~respd.Success THEN failureReturn(respd)
    ELSE [resp |-> respd.Data, err |-> Nil]

\* ------------------------------------------------------------------ state

VARIABLES
    cfg,       \* sc.cfg
    rest,      \* sc.rest.{Token, MasterToken, SessionID}
    pc,        \* where the running call of authenticate stands
    args,      \* the samlResponse and proofKey of the latest call
    sent,      \* what the latest call handed to FuncPostAuth
    http,      \* what FuncPost gave back in the latest call
    posted,    \* what postAuth returned in the latest call: [data, err]
    ret,       \* what the latest call returned: [resp, err]
    prevRest,  \* sc.rest as it was when the latest call began
    posts,     \* FuncPost round trips made by the latest call
    lastDecoded, \* the latest response authenticate got decoded, if any
    prior      \* the call before the latest one, where it is recorded

vars ==
    <<cfg, rest, pc, args, sent, http, posted, ret, prevRest, posts,
      lastDecoded, prior>>

\* Nothing yet: no call was made, or the call has not got that far.
None == [type |-> "none"]

\* One configuration per scheme, each carrying the credentials of all.
SchemeConfigs ==
    { c \in Configs :
        /\ c.Authenticator \in { authenticatorSnowflake, authenticatorOAuth,
                                 authenticatorOkta,
                                 authenticatorExternalBrowser }
        /\ c.User = "alice" /\ c.Password = "pw" /\ c.Token = "oauth-tok"
        /\ c.Passcode = "" /\ ~c.PasscodeInPassword
        /\ c.Params = << >> /\ c.Database = "db" }

InitWith(configs, records) ==
    /\ cfg \in configs
    /\ rest \in records
    /\ pc = "idle"
    /\ args = None
    /\ sent = None
    /\ http = None
    /\ posted = None
    /\ ret = None
    /\ prevRest = None
    /\ posts = 0
    /\ lastDecoded = None
    /\ prior = None

\* The record kept of a call that has returned.
Snapshot ==
    [args |-> args, http |-> http, sent |-> sent, posted |-> posted,
     ret |-> ret, prevRest |-> prevRest]

\* authenticate(sc, samlResponse, proofKey) up to the call of FuncPostAuth
\* (lines 177-256).  keep: whether the call that returned before this one
\* is recorded in prior.
Call(samlResponse, proofKey, keep) ==
    /\ pc = "idle"
    /\ \E sp \in SessionParameterMaps(cfg.Params) :
           sent' = authCall(cfg, samlResponse, proofKey, sp)
    /\ args' = [samlResponse |-> samlResponse, proofKey |-> proofKey]
    /\ prevRest' = rest
    /\ http' = None
    /\ posted' = None
    /\ ret' = None
    /\ posts' = 0
    /\ prior' = IF keep /\ ret # None THEN Snapshot ELSE prior
    /\ pc' = "post"
    /\ UNCHANGED <<cfg, rest, lastDecoded>>

\* sc.rest.FuncPostAuth(...) with FuncPost's outcome o, and the test of its
\* error (lines 257-260).
Post(o) ==
    /\ pc = "post"
    /\ sent' = [sent EXCEPT !.params = withRequestID(@)]
    /\ http' = o
    /\ posted' = postAuth(sent', o)
    /\ posts' = posts + 1
    /\ ret' = IF posted'.err # Nil THEN forwardError(posted'.err) ELSE ret
    /\ lastDecoded' = IF posted'.err = Nil THEN posted'.data ELSE lastDecoded
    /\ pc' = pcAfterPost(posted')
    /\ UNCHANGED <<cfg, rest, args, prevRest, prior>>

\* sc.rest.Token = ... (line 264 or 279)
SetToken ==
    /\ pc = "token"
    /\ rest' = [rest EXCEPT !.Token = tokenAfter(posted.data)]
    /\ pc' = "master"
    /\ UNCHANGED <<cfg, args, sent, http, posted, ret, prevRest, posts,
                   lastDecoded, prior>>

\* sc.rest.MasterToken = ... (line 265 or 280)
SetMasterToken ==
    /\ pc = "master"
    /\ rest' = [rest EXCEPT !.MasterToken = masterTokenAfter(posted.data)]
    /\ pc' = "session"
    /\ UNCHANGED <<cfg, args, sent, http, posted, ret, prevRest, posts,
                   lastDecoded, prior>>

\* sc.rest.SessionID = ... and the return (lines 266-276 or 281-282)
SetSessionID ==
    /\ pc = "session"
    /\ rest' = [rest EXCEPT !.SessionID = sessionIDAfter(posted.data)]
    /\ ret' = authenticateReturn(posted.data)
    /\ pc' = "idle"
    /\ UNCHANGED <<cfg, args, sent, http, posted, prevRest, posts,
                   lastDecoded, prior>>

\* The negotiation: one configuration per scheme, every transport outcome.
Init == InitWith(SchemeConfigs, InitRecords)

Next ==
    \/ \E s \in SamlResponses, k \in ProofKeys : Call(s, k, FALSE)
    \/ \E o \in PostOutcomes : Post(o)
    \/ SetToken
    \/ SetMasterToken
    \/ SetSessionID

Spec == Init /\ [][Next]_vars

\* The request builder: every configuration, one transport outcome of each
\* kind.
BuildOutcomes ==
    { PostError([type |-> "net", name |-> "timeout"]),
      PostResponse(StatusOK, TRUE,
          [Data |-> FullData, Message |-> "", Code |-> <<>>,
           Success |-> TRUE]) }

InitBuild == InitWith(Configs, {ClearedRecord})

NextBuild ==
    \/ \E s \in SamlResponses, k \in ProofKeys : Call(s, k, FALSE)
    \/ \E o \in BuildOutcomes : Post(o)
    \/ SetToken
    \/ SetMasterToken
    \/ SetSessionID

SpecBuild == InitBuild /\ [][NextBuild]_vars

\* Two calls in a row on one connection, the earlier one recorded: one
\* configuration per scheme and override map, one transport outcome of each
\* kind.
PairConfigs ==
    { c \in Configs :
        /\ c.Authenticator \in { authenticatorSnowflake, authenticatorOAuth,
                                 authenticatorOkta,
                                 authenticatorExternalBrowser }
        /\ c.Password = "pw" /\ c.Token = "oauth-tok"
        /\ c.Passcode = "" /\ ~c.PasscodeInPassword
        /\ c.Database = "db" }

PairOutcomes ==
    { PostError([type |-> "net", name |-> "timeout"]),
      PostResponse(StatusServiceUnavailable, TRUE, Nil),
      PostResponse(StatusOK, TRUE, Nil),
      PostResponse(StatusOK, TRUE,
          [Data |-> FullData, Message |-> "", Code |-> <<>>,
           Success |-> TRUE]),
      PostResponse(StatusOK, TRUE,
          [Data |-> ZeroData, Message |-> "bad creds", Code |-> CODE_390100,
           Success |-> FALSE]),
      PostResponse(StatusOK, TRUE,
          [Data |-> ZeroData, Message |-> "bad creds", Code |-> <<"x">>,
           Success |-> FALSE]) }

\* A caller of postAuth whose call failed calls it again with the params
\* value it passed before (the *url.Values that line 111 has grown), and
\* gets FuncPost's outcome o.  authenticate is not part of this call: the
\* session record and its return value stay as they are.
PostAuthAgain(o) ==
    /\ pc = "idle"
    /\ posted # None /\ posted.err # Nil
    /\ Len(RequestIDs(sent.params)) <= MaxRetries
    /\ sent' = [sent EXCEPT !.params = withRequestID(@)]
    /\ http' = o
    /\ posted' = postAuth(sent', o)
    /\ UNCHANGED <<cfg, rest, pc, args, ret, prevRest, posts, lastDecoded,
                   prior>>

\* The negotiation with a caller that retries postAuth.
NextRetry ==
    \/ \E s \in SamlResponses, k \in ProofKeys : Call(s, k, FALSE)
    \/ \E o \in PairOutcomes : Post(o)
    \/ SetToken
    \/ SetMasterToken
    \/ SetSessionID
    \/ \E o \in PairOutcomes : PostAuthAgain(o)

SpecRetry == Init /\ [][NextRetry]_vars

InitPair == InitWith(PairConfigs, InitRecords)

NextPair ==
    \/ \E s \in SamlResponses : Call(s, "pk", TRUE)
    \/ \E o \in PairOutcomes : Post(o)
    \/ SetToken
    \/ SetMasterToken
    \/ SetSessionID

SpecPair == InitPair /\ [][NextPair]_vars

\* An attempt has completed: the latest call of authenticate has returned.
Completed == pc = "idle" /\ ret # None

\* FuncPostAuth returned a decoded response in the latest call.
Decoded == posted # None /\ posted.err = Nil

\* FuncPostAuth returned an error in the latest call.
PostFailed == posted # None /\ posted.err # Nil

\* Both tokens set and a session identifier that is not negative.
FullyPopulated(r) ==
    r.Token # "" /\ r.MasterToken # "" /\ r.SessionID >= 0

\* ------------------------------------------------------------------ claims

\* C1: whenever an attempt has completed, the session record is either
\* fully populated (both tokens non-empty, SessionID >= 0) or fully cleared
\* (Token = "", MasterToken = "", SessionID = -1), never mixed.
C1_RecordNeverMixed ==
    Completed => (FullyPopulated(rest) \/ rest = ClearedRecord)

\* C2: whenever FuncPostAuth returns a decoded response with success=false,
\* authenticate leaves the session record fully cleared, whatever the record
\* was before and whatever the code field holds (parseable or not).
C2_FailureClearsRecord ==
    (Completed /\ Decoded /\ ~posted.data.Success) => rest = ClearedRecord

\* C2 witness: a rejected login whose code does not parse, on a connection
\* whose record was populated, has completed with the record cleared.
C2_Witness ==
    /\ Completed /\ Decoded /\ ~posted.data.Success
    /\ ~Atoi(posted.data.Code).ok
    /\ prevRest = [Token |-> "T1", MasterToken |-> "M1", SessionID |-> 7]
    /\ rest = ClearedRecord

\* C3: whenever FuncPostAuth returns a decoded response with success=true,
\* authenticate returns no error and the response's data record, and the
\* session record's Token, MasterToken and SessionID equal the data's
\* token, masterToken and sessionId, whatever the record was before.
C3_SuccessCommitsData ==
    (Completed /\ Decoded /\ posted.data.Success) =>
        /\ ret.err = Nil
        /\ ret.resp = posted.data.Data
        /\ rest.Token = posted.data.Data.Token
        /\ rest.MasterToken = posted.data.Data.MasterToken
        /\ rest.SessionID = posted.data.Data.SessionID

\* C3 witness: a successful login has replaced an earlier session's record.
C3_Witness ==
    /\ Completed /\ Decoded /\ posted.data.Success
    /\ prevRest = [Token |-> "T0", MasterToken |-> "M0", SessionID |-> 1]
    /\ rest = [Token |-> "T1", MasterToken |-> "M1", SessionID |-> 7]
    /\ ret.resp.DisplayUserName = "ALICE"

\* C4: when FuncPostAuth returns an error of any kind, authenticate returns
\* that same error and no result, and Token, MasterToken and SessionID are
\* what they were before the attempt.
C4_TransportErrorFrame ==
    (Completed /\ PostFailed) =>
        /\ ret.err = posted.err
        /\ ret.resp = Nil
        /\ rest = prevRest

\* C4 witness: a login that timed out has completed on a connection that
\* holds a session.
C4_Witness ==
    /\ Completed /\ PostFailed
    /\ http.err = [type |-> "net", name |-> "timeout"]
    /\ rest = [Token |-> "T1", MasterToken |-> "M1", SessionID |-> 7]

\* The SnowflakeError number postAuth is to give a status other than 200.
NumberForStatus(status) ==
    IF status \in {502, 503, 504} THEN Named("ErrCodeServiceUnavailable")
    ELSE IF status \in {401, 403} THEN Named("ErrCodeFailedToConnect")
    ELSE Named("ErrFailedToAuth")

\* C5: postAuth classifies every status other than 200 by the status code
\* alone: 502, 503, 504 give ErrCodeServiceUnavailable, 401 and 403 give
\* ErrCodeFailedToConnect, every other one ErrFailedToAuth, also when the
\* body cannot be read.
C5_StatusAloneClassifies ==
    (posted # None /\ http.err = Nil /\ http.StatusCode # 200) =>
        /\ posted.data = Nil
        /\ posted.err.type = "SnowflakeError"
        /\ posted.err.Number = NumberForStatus(http.StatusCode)

\* C6: a success=false response whose code parses as an integer makes
\* authenticate fail with a SnowflakeError of SQLStateConnectionRejected
\* whose number is the parsed code and whose message is the server's
\* ("390100", "bad creds" gives number 390100, message "bad creds").
C6_RejectedCarriesCode ==
    (Completed /\ Decoded /\ ~posted.data.Success
        /\ Atoi(posted.data.Code).ok) =>
        /\ ret.resp = Nil
        /\ ret.err.type = "SnowflakeError"
        /\ ret.err.SQLState = Named("SQLStateConnectionRejected")
        /\ ret.err.Number = IntNum(Atoi(posted.data.Code).value)
        /\ ret.err.Message = posted.data.Message
        /\ posted.data.Code = CODE_390100 => ret.err.Number = IntNum(390100)
        /\ posted.data.Code = <<"-", "3">> => ret.err.Number = IntNum(-3)
        /\ posted.data.Code = <<"0", "3">> => ret.err.Number = IntNum(3)

\* C6 witness: the login rejected with code "390100" and "bad creds".
C6_Witness ==
    /\ Completed /\ Decoded /\ ~posted.data.Success
    /\ posted.data.Code = CODE_390100
    /\ ret.err.Number = IntNum(390100)
    /\ ret.err.Message = "bad creds"

\* C7: a success=false response whose code does not parse as an integer
\* still makes authenticate fail with a SnowflakeError of
\* SQLStateConnectionRejected carrying the sentinel code -1 and the server's
\* message; the parse failure does not replace that error.
C7_UnparseableCodeStillRejected ==
    (Completed /\ Decoded /\ ~posted.data.Success
        /\ ~Atoi(posted.data.Code).ok) =>
        /\ ret.resp = Nil
        /\ ret.err.type = "SnowflakeError"
        /\ ret.err.SQLState = Named("SQLStateConnectionRejected")
        /\ ret.err.Number = IntNum(-1)
        /\ ret.err.Message = posted.data.Message

\* The latest FuncPost outcome is a 200 whose body is not a readable
\* authResponse document.
UndecodableOK ==
    /\ http # None /\ http.err = Nil /\ http.StatusCode = 200
    /\ (~http.readable \/ http.json = Nil)

SchemeOf(c) ==
    LET a == ToUpper(c.Authenticator)
    IN  IF a = <<"E","X","T","E","R","N","A","L","B","R","O","W","S","E","R">>
        THEN "externalbrowser"
        ELSE IF a = <<"O","A","U","T","H">> THEN "oauth"
        ELSE IF a = <<"O","K","T","A">> THEN "okta"
        ELSE "default"

\* C9: the request authenticate builds holds only the fields of the active
\* scheme.  EXTERNALBROWSER: ProofKey, Token, LoginName set; Password,
\* RawSAMLResponse, Passcode empty.  OAUTH: LoginName and Token set;
\* Password, ProofKey, RawSAMLResponse empty.  OKTA: RawSAMLResponse set;
\* LoginName, Password, Token, ProofKey empty.  Default: LoginName and
\* Password set; Token, ProofKey, RawSAMLResponse empty.  Whatever other
\* credentials the configuration carries.
C9_OnlyActiveSchemeFields ==
    sent # None =>
        LET d == sent.body.data
            scheme == SchemeOf(cfg)
        IN  /\ scheme = "externalbrowser" =>
                /\ d.ProofKey = args.proofKey
                /\ d.Token = args.samlResponse
                /\ d.LoginName = cfg.User
                /\ d.Password = "" /\ d.RawSAMLResponse = ""
                /\ d.Passcode = ""
            /\ scheme = "oauth" =>
                /\ d.LoginName = cfg.User
                /\ d.Token = cfg.Token
                /\ d.Password = "" /\ d.ProofKey = ""
                /\ d.RawSAMLResponse = ""
            /\ scheme = "okta" =>
                /\ d.RawSAMLResponse = args.samlResponse
                /\ d.LoginName = "" /\ d.Password = ""
                /\ d.Token = "" /\ d.ProofKey = ""
            /\ scheme = "default" =>
                /\ d.LoginName = cfg.User
                /\ d.Password = cfg.Password
                /\ d.Token = "" /\ d.ProofKey = ""
                /\ d.RawSAMLResponse = ""

\* C9 witness: an OAUTH request was built from a configuration that also
\* carries a password and a passcode, and was given SAML bytes and a proof
\* key.
C9_Witness ==
    /\ sent # None
    /\ cfg.Authenticator = OAUTH_MC
    /\ cfg.Password = "pw" /\ cfg.Passcode = "123456"
    /\ cfg.Token = "oauth-tok"
    /\ args.samlResponse = "<assertion/>" /\ args.proofKey = "pk"
    /\ sent.body.data.Token = "oauth-tok"
    /\ sent.body.data.Password = ""

\* C10: in the default scheme, PasscodeInPassword gives ExtAuthnDuoMethod =
\* "passcode" and an empty Passcode even when a passcode is configured;
\* otherwise a non-empty passcode is sent with ExtAuthnDuoMethod =
\* "passcode"; otherwise both fields are empty.
C10_PasscodePaths ==
    (sent # None /\ SchemeOf(cfg) = "default") =>
        LET d == sent.body.data
        IN  IF cfg.PasscodeInPassword
            THEN d.ExtAuthnDuoMethod = "passcode" /\ d.Passcode = ""
            ELSE IF cfg.Passcode # ""
            THEN d.ExtAuthnDuoMethod = "passcode"
                 /\ d.Passcode = cfg.Passcode
            ELSE d.ExtAuthnDuoMethod = "" /\ d.Passcode = ""

\* C10 witness: a default-scheme request was built from a configuration
\* with both PasscodeInPassword and a standalone passcode.
C10_Witness ==
    /\ sent # None /\ SchemeOf(cfg) = "default"
    /\ cfg.PasscodeInPassword /\ cfg.Passcode = "123456"
    /\ sent.body.data.ExtAuthnDuoMethod = "passcode"
    /\ sent.body.data.Passcode = ""

\* No character of s is a lower-case letter.
IsUpperCase(s) ==
    \A i \in 1..Len(s) :
        s[i] \notin {"a","b","c","d","e","f","g","h","i","j","k","l","m",
                     "n","o","p","q","r","s","t","u","v","w","x","y","z"}

\* No two keys of the map have the same upper-case form.
NoCollision(params) ==
    \A j, k \in DOMAIN params : ToUpper(j) = ToUpper(k) => j = k

\* C11: every key of the built SessionParameters map is upper-case, every
\* configured key k appears as ToUpper(k) and nothing else does, and when no
\* two configured keys collide the value under ToUpper(k) is the value
\* configured for k; {"warehouse": "x"} gives the key WAREHOUSE with "x".
C11_ParameterKeysUpperCased ==
    sent # None =>
        LET m == sent.body.data.SessionParameters
        IN  /\ \A u \in DOMAIN m : IsUpperCase(u)
            /\ DOMAIN m = { ToUpper(k) : k \in DOMAIN cfg.Params }
            /\ NoCollision(cfg.Params) =>
                   \A k \in DOMAIN cfg.Params : m[ToUpper(k)] = cfg.Params[k]
            /\ cfg.Params = [k \in {KEY_warehouse} |-> "x"] =>
                   m = [u \in {<<"W","A","R","E","H","O","U","S","E">>} |-> "x"]
            /\ KEY_b2 \in DOMAIN cfg.Params => m[<<"B","2">>] = "3"

\* C11 witness: a request was built from the overrides {"warehouse": "x"}.
C11_Witness ==
    /\ sent # None
    /\ cfg.Params = [k \in {KEY_warehouse} |-> "x"]
    /\ DOMAIN sent.body.data.SessionParameters
         = { <<"W","A","R","E","H","O","U","S","E">> }

\* C12: a call of authenticate invokes FuncPostAuth at most once, and with
\* it makes one FuncPost round trip; whatever the outcome (ServiceUnavailable
\* included), no second request is issued before the call returns.
C12_OneRoundTrip ==
    /\ posts <= 1
    /\ (pc = "post") = (sent # None /\ posts = 0)
    /\ (Completed \/ pc \in {"token", "master", "session"}) => posts = 1

\* C12 witness: a call answered 503 has returned after one round trip.
C12_Witness ==
    /\ Completed /\ posts = 1
    /\ http.StatusCode = 503
    /\ ret.err.Number = Named("ErrCodeServiceUnavailable")

\* C13: the request authenticate builds and the outcome it returns depend
\* only on the configuration, the credential bytes and the transport's
\* reply: two calls on one connection with the same bytes send the same
\* body and selectors, and with the same reply return the same outcome,
\* whatever the session record and the earlier outcomes were.
C13_IndependentOfHistory ==
    /\ (prior # None /\ sent # None /\ prior.args = args) =>
           /\ sent.body = prior.sent.body
           /\ [k \in DOMAIN sent.params \ {"requestId"} |-> sent.params[k]]
                = [k \in DOMAIN prior.sent.params \ {"requestId"} |->
                      prior.sent.params[k]]
    /\ (prior # None /\ Completed /\ prior.args = args /\ prior.http = http)
           => ret = prior.ret

\* C16: the built SessionParameters map is a function of the configured
\* overrides: two builds from one configuration give the same map, also
\* when two keys collide after upper-casing.
C16_ParametersDeterministic ==
    (prior # None /\ sent # None) =>
        sent.body.data.SessionParameters
            = prior.sent.body.data.SessionParameters

\* The upper-case spelling of each configured authenticator name.
UpperName(name) ==
    IF name \in {OAUTH_LC, OAUTH_MC, authenticatorOAuth}
    THEN <<"O","A","U","T","H">>
    ELSE IF name \in {OKTA_LC, authenticatorOkta} THEN <<"O","K","T","A">>
    ELSE IF name \in {EXTBROWSER_LC, EXTBROWSER_MC,
                      authenticatorExternalBrowser}
    THEN <<"E","X","T","E","R","N","A","L","B","R","O","W","S","E","R">>
    ELSE IF name \in {SNOWFLAKE_LC, authenticatorSnowflake}
    THEN <<"S","N","O","W","F","L","A","K","E">>
    ELSE IF name = LDAP_LC THEN <<"L","D","A","P">>
    ELSE <<>>

\* C14: scheme selection is case-insensitive: the request built for any
\* casing of the authenticator name is the one built for the upper-case
\* name, and a name that is none of EXTERNALBROWSER, OAUTH, OKTA (the empty
\* name included) gives the request of the default password scheme.
C14_SchemeCaseInsensitive ==
    sent # None =>
        LET d     == sent.body.data
            upper == UpperName(cfg.Authenticator)
        IN  /\ d = requestMain([cfg EXCEPT !.Authenticator = upper],
                               args.samlResponse, args.proofKey,
                               d.SessionParameters)
            /\ upper = <<"O","A","U","T","H">> =>
                   d.Authenticator = upper /\ d.Token = cfg.Token
            /\ upper = <<"O","K","T","A">> =>
                   d.RawSAMLResponse = args.samlResponse /\ d.LoginName = ""
            /\ upper = <<"E","X","T","E","R","N","A","L","B","R","O","W","S","E","R">>
                   => d.Authenticator = upper /\ d.ProofKey = args.proofKey
            /\ upper \in { <<>>, <<"L","D","A","P">>,
                           <<"S","N","O","W","F","L","A","K","E">> } =>
                   /\ d.LoginName = cfg.User /\ d.Password = cfg.Password
                   /\ d.Authenticator = <<>> /\ d.Token = ""
                   /\ d.ProofKey = "" /\ d.RawSAMLResponse = ""

\* C14 witness: requests were built for the mixed-case name "OAuth" and
\* carry the bearer token.
C14_Witness ==
    /\ sent # None
    /\ cfg.Authenticator = OAUTH_MC /\ cfg.Token = "oauth-tok"
    /\ sent.body.data.Authenticator = <<"O","A","U","T","H">>
    /\ sent.body.data.Token = "oauth-tok"

\* The record the decoded response of the latest call is to leave.
OutcomeRecord ==
    IF posted.data.Success
    THEN [Token       |-> posted.data.Data.Token,
          MasterToken |-> posted.data.Data.MasterToken,
          SessionID   |-> posted.data.Data.SessionID]
    ELSE [Token |-> "", MasterToken |-> "", SessionID |-> -1]

\* C15: the session record is committed as one atomic update on the success
\* path and on the success=false path: in every state after the response
\* was decoded, Token, MasterToken and SessionID are all still the values
\* from before the call or all the values of the new outcome.
C15_AtomicCommit ==
    Decoded => (rest = prevRest \/ rest = OutcomeRecord)

\* C17: every request postAuth sends carries exactly one requestId, the
\* one generated for that call, also when the caller calls postAuth again
\* with the params value it passed before; the identifier of an earlier
\* call is never sent along with it.
C17_OneFreshRequestID ==
    http # None =>
        /\ Len(RequestIDs(sent.params)) = 1
        /\ "requestId" \in DOMAIN sent.params

\* C18: after any sequence of calls of authenticate that have returned, the
\* session record is decided by the latest call that got a decoded
\* response: the data of a success=true response, the cleared record for a
\* success=false one.  Calls that ended in a transport error change
\* nothing, so a failed retry after a login leaves the login's tokens.
C18_LatestDecodedDecides ==
    Completed =>
        IF lastDecoded = None
        THEN rest \in InitRecords
        ELSE IF lastDecoded.Success
        THEN rest = [Token       |-> lastDecoded.Data.Token,
                     MasterToken |-> lastDecoded.Data.MasterToken,
                     SessionID   |-> lastDecoded.Data.SessionID]
        ELSE rest = [Token |-> "", MasterToken |-> "", SessionID |-> -1]

\* C18 witness: a call that timed out has returned after a successful
\* login, and the login's tokens are in place.
C18_Witness ==
    /\ Completed /\ PostFailed
    /\ http.err = [type |-> "net", name |-> "timeout"]
    /\ lastDecoded # None /\ lastDecoded.Success
    /\ lastDecoded.Data.Token = "T1"
    /\ rest = [Token |-> "T1", MasterToken |-> "M1", SessionID |-> 7]

\* C19: every call of postAuth and of authenticate that has returned gave
\* exactly one of a result and an error: on a FuncPost error, on each
\* status class, on a decode failure, on success=false with a code that
\* parses or does not, and on success=true.
C19_ResultXorError ==
    /\ posted # None => (posted.data = Nil) # (posted.err = Nil)
    /\ Completed => (ret.resp = Nil) # (ret.err = Nil)

\* C19 witness: a call rejected with a code that does not parse has
\* returned an error and no result.
C19_Witness ==
    /\ Completed /\ Decoded /\ ~posted.data.Success
    /\ ~Atoi(posted.data.Code).ok
    /\ ret.resp = Nil /\ ret.err # Nil

====
